---- MODULE Spec2Model ----
(***************************************************************************)
(* Model of src/kz.py: the two WorkingHourManager variants (the first      *)
(* keeps one connection per instance, the second opens one per call in     *)
(* the prepare_connection decorator), the DbManager that hands out         *)
(* connections, and the Connection the managers talk to.                   *)
(*                                                                         *)
(* Connection is given the behaviour its callers rely on: execute runs a   *)
(* parameterised statement against the tables the statements name and      *)
(* raises when the statement cannot run, fetchone yields the first row of  *)
(* the result (salary unpacks it into two values, so it is a row) or None, *)
(* commit publishes the connection's pending writes, close releases it.    *)
(* Every call the managers make on a connection is recorded, in order, in  *)
(* last.trace, and counted per connection in conns.                        *)
(***************************************************************************)
EXTENDS Integers, Sequences, FiniteSets, TLC

\* ---------------------------------------------------------------- bounds
MaxSteps == 3       \* constructions and method calls in one behaviour
MaxEmployee == 2    \* employee identifiers 1..MaxEmployee
MaxTime == 2        \* durations passed to log: 1..MaxTime
MaxDate == 1        \* date_from / date_to arguments: 1..MaxDate
MaxRate == 1        \* hour_rate values: 1..MaxRate

Employees == 1..MaxEmployee
Times == 1..MaxTime
Dates == 1..MaxDate
Rates == 1..MaxRate

VARIABLES
    mgr,             \* the manager object in use: id, variant, _employee_id, connection
    conns,           \* every Connection DbManager.open_connection has returned
    working_log,     \* committed rows of table working_log
    employee_rates,  \* rows of table employee_rates
    columns,         \* the columns table working_log has
    last,            \* the last constructor or method call and what it did
    steps            \* calls made so far

vars == <<mgr, conns, working_log, employee_rates, columns, last, steps>>

\* ------------------------------------------------------------ SQL values
Null == [isNull |-> TRUE, n |-> 0]
Val(k) == [isNull |-> FALSE, n |-> k]

\* ---------------------------------------------------------- Python values
PyNone == [tag |-> "None", n |-> 0, row |-> <<>>]
PyInt(k) == [tag |-> "int", n |-> k, row |-> <<>>]
PyTuple(r) == [tag |-> "tuple", n |-> 0, row |-> r]

\* ------------------------------------------------------------- sequences
RECURSIVE RowsOf(_, _)
\* the rows of s whose employee_id is e, in order
RowsOf(s, e) ==
    IF s = <<>> THEN <<>>
    ELSE IF Head(s).employee_id = e
         THEN <<Head(s)>> \o RowsOf(Tail(s), e)
         ELSE RowsOf(Tail(s), e)

RECURSIVE SumCells(_)
\* SQL SUM over a sequence of cells: NULLs are skipped, and the sum of no
\* non-NULL value is NULL
SumCells(cells) ==
    IF cells = <<>> THEN Null
    ELSE LET rest == SumCells(Tail(cells))
             h == Head(cells)
         IN IF h.isNull THEN rest
            ELSE IF rest.isNull THEN h
            ELSE Val(h.n + rest.n)

\* SQL arithmetic: NULL * k is NULL
MulCell(c, k) == IF c.isNull THEN Null ELSE Val(c.n * k)

\* ------------------------------------------------------------ statements
\* A string literal as the words it holds, and whether it begins (lead) or
\* ends (trail) with white space.
Literal(words, lead, trail) == [words |-> words, lead |-> lead, trail |-> trail]

\* Two adjacent string literals are joined with nothing between them: unless
\* one of them brings the white space, the last word of the first and the
\* first word of the second become one word.
Join(a, b) ==
    IF a.trail \/ b.lead
    THEN Literal(a.words \o b.words, a.lead, b.trail)
    ELSE Literal(SubSeq(a.words, 1, Len(a.words) - 1)
                   \o <<a.words[Len(a.words)] \o b.words[1]>>
                   \o Tail(b.words),
                 a.lead, b.trail)

RECURSIVE Concat(_)
Concat(literals) ==
    IF Len(literals) = 1 THEN literals[1]
    ELSE Join(literals[1], Concat(Tail(literals)))

\* The statement of log.
LogStatement ==
    [words |-> <<"INSERT", "INTO", "working_log", "(employee_id,", "time)",
                 "VALUES", "(?,", "?)">>,
     refs |-> {"employee_id", "time"}]

\* The statement of total.
TotalStatement ==
    [words |-> <<"SELECT", "SUM(time_in_seconds)*60*60", "FROM", "working_log",
                 "WHERE", "employee_id", "=", "?", "LIMIT", "1">>,
     refs |-> {"employee_id", "time_in_seconds"}]

\* The five adjacent string literals of salary's statement.
SalaryLiterals ==
    << Literal(<<"SELECT", "X.sum,", "Y.hour_rate">>, FALSE, FALSE),
       Literal(<<"FROM", "(SELECT", "sum(time_in_seconds)", "as", "'sum'",
                 "FROM", "working_log">>, FALSE, TRUE),
       Literal(<<"WHERE", "employee_id", "=", "?", "and", "time_in_seconds",
                 ">=", "?", "and", "time_in_seconds", "<=", "?">>, FALSE, FALSE),
       Literal(<<"LIMIT", "1">>, FALSE, FALSE),
       Literal(<<")", "as", "X,", "(SELECT", "hour_rate", "as", "'hour_rate'",
                 "FROM", "employee_rates", "WHERE", "employee_id", "=", "?",
                 "LIMIT", "1)", "as", "Y">>, FALSE, FALSE) >>

\* The statement of salary.
SalaryStatement ==
    [words |-> Concat(SalaryLiterals).words,
     refs |-> {"employee_id", "time_in_seconds"}]

\* What the statement parser needs of the words: INSERT is followed by INTO,
\* and the select list of a SELECT is followed by the keyword FROM, as a word
\* of its own, before any sub-select opens.  (Punctuation delimits itself:
\* "?LIMIT" and "1)" lex as two tokens each, an identifier run into a keyword
\* does not.)
Parses(words) ==
    \/ words[1] = "INSERT" /\ words[2] = "INTO"
    \/ /\ words[1] = "SELECT"
       /\ \E i \in 2..Len(words) :
            /\ words[i] = "FROM"
            /\ \A j \in 2..(i - 1) : words[j] # "(SELECT"

\* Connection.execute raises when the statement does not parse or names a
\* column the table does not have.
ExecuteRaises(stmt) == ~Parses(stmt.words) \/ ~(stmt.refs \subseteq columns)

\* ------------------------------------------------------- query parameters
LogParams(employee_id, time) == <<employee_id, time>>
TotalParams(employee_id) == <<employee_id>>
\* a slip in the fourth position: the rate of another key is read
SalaryParams_date(employee_id, date_from, date_to) ==
    <<employee_id, date_from, date_to, date_to>>

SalaryParams(employee_id, date_from, date_to) ==
    <<employee_id, date_from, date_to, employee_id>>

\* ----------------------------------------------------------- query results
\* INSERT INTO working_log (employee_id, time) VALUES (?, ?): the columns the
\* statement does not name stay NULL.
InsertedRow(params) ==
    [employee_id |-> params[1], time |-> Val(params[2]), time_in_seconds |-> Null]

\* the time_in_seconds cells of a sequence of rows
SecondsOf(rows) == [i \in 1..Len(rows) |-> rows[i].time_in_seconds]

\* SELECT SUM(time_in_seconds)*60*60 FROM working_log WHERE employee_id = ?
\* LIMIT 1: an aggregate without GROUP BY has exactly one row.
TotalRows(view, params) ==
    << <<MulCell(MulCell(SumCells(SecondsOf(RowsOf(view, params[1]))), 60), 60)>> >>

RECURSIVE InRange(_, _, _)
\* the cells c of the sequence with c >= lo and c <= hi; a comparison with
\* NULL is not true
InRange(cells, lo, hi) ==
    IF cells = <<>> THEN <<>>
    ELSE LET h == Head(cells)
         IN IF ~h.isNull /\ h.n >= lo /\ h.n <= hi
            THEN <<h>> \o InRange(Tail(cells), lo, hi)
            ELSE InRange(Tail(cells), lo, hi)

\* X of salary's statement: one row, the sum over the employee's rows whose
\* time_in_seconds lies between the second and the third parameter
SalaryX(view, params) ==
    SumCells(InRange(SecondsOf(RowsOf(view, params[1])), params[2], params[3]))

\* Y of salary's statement: the employee's hour_rate rows, at most one
SalaryY(rates, params) == {r \in rates : r.employee_id = params[4]}

\* X, Y: the cross join has a row only if Y has one
SalaryRows(view, rates, params) ==
    IF SalaryY(rates, params) = {} THEN <<>>
    ELSE << <<SalaryX(view, params),
              Val((CHOOSE r \in SalaryY(rates, params) : TRUE).hour_rate)>> >>

\* fetchone: the first row of the result, None when it has none
fetchone(rows) == IF rows = <<>> THEN PyNone ELSE PyTuple(rows[1])

\* ------------------------------------------------------------ connections
\* One recorded call on the connection provider or on a connection.
Event(ev, conn, stmt, params) ==
    [ev |-> ev, conn |-> conn, stmt |-> stmt, params |-> params]

\* how many events of kind ev a trace holds
NumEv(trace, ev) == Cardinality({i \in 1..Len(trace) : trace[i].ev = ev})

\* DbManager.open_connection: a new Connection, here opened for manager owner
open_connection(owner) ==
    [owner |-> owner, executes |-> 0, commits |-> 0, closes |-> 0, pending |-> <<>>]

\* Connection.commit, counted per connection; the rows it publishes are taken
\* from pending by the caller
commit(conn) == [conn EXCEPT !.commits = @ + 1, !.pending = <<>>]

\* Connection.close, counted per connection
close(conn) == [conn EXCEPT !.closes = @ + 1]

\* the rows a statement on connection c sees: the committed ones and the
\* connection's own pending ones
Visible(c) == working_log \o conns[c].pending

\* ---------------------------------------------------------- method bodies
\* What a method body does on connection c: the calls it makes on it, whether
\* it raises and what, what it returns, and the rows its statement inserts.
Outcome(calls, exc, result, insert) ==
    [calls |-> calls, raised |-> exc # "", exc |-> exc, result |-> result,
     insert |-> insert]

\* log (both versions have the same body)
log(c, employee_id, time) ==
    LET params == LogParams(employee_id, time)
        calls == <<Event("execute", c, "log", params)>>
    IN IF ExecuteRaises(LogStatement)
       THEN Outcome(calls, "QueryError", PyNone, <<>>)
       ELSE Outcome(calls, "", PyNone, <<InsertedRow(params)>>)

\* total (both versions have the same body): what fetchone gives is returned
\* as it is
total(c, employee_id, view) ==
    LET params == TotalParams(employee_id)
        calls == <<Event("execute", c, "total", params)>>
    IN IF ExecuteRaises(TotalStatement)
       THEN Outcome(calls, "QueryError", PyNone, <<>>)
       ELSE Outcome(calls, "", fetchone(TotalRows(view, params)), <<>>)

\* what salary does once it has called execute with params (the calls made
\* are `calls`): the fetched row is unpacked into total_time and hour_rate,
\* which are multiplied
SalaryBody(calls, params, view, rates) ==
    LET fetched == fetchone(SalaryRows(view, rates, params))
    IN IF ExecuteRaises(SalaryStatement)
       THEN Outcome(calls, "QueryError", PyNone, <<>>)
       ELSE IF fetched.tag = "None"
       THEN Outcome(calls, "TypeError", PyNone, <<>>)   \* None cannot be unpacked
       ELSE LET total_time == fetched.row[1]
                hour_rate == fetched.row[2]
            IN IF total_time.isNull \/ hour_rate.isNull
               THEN Outcome(calls, "TypeError", PyNone, <<>>)   \* None * number
               ELSE Outcome(calls, "", PyInt(total_time.n * hour_rate.n), <<>>)

\* salary as it was before the two queries were made one: the sum and the rate
\* are fetched by a statement each
salary_two_queries(c, employee_id, date_from, date_to, view, rates) ==
    LET params == SalaryParams(employee_id, date_from, date_to)
    IN SalaryBody(<<Event("execute", c, "salary", SubSeq(params, 1, 3)),
                    Event("execute", c, "salary", SubSeq(params, 4, 4))>>,
                  params, view, rates)

\* salary (both versions have the same body): one execute, then fetchone
salary(c, employee_id, date_from, date_to, view, rates) ==
    LET params == SalaryParams(employee_id, date_from, date_to)
    IN SalaryBody(<<Event("execute", c, "salary", params)>>, params, view, rates)

\* a connection after a method body has run on it
Used(conn, body) ==
    [conn EXCEPT !.executes = @ + NumEv(body.calls, "execute"),
                 !.pending = @ \o body.insert]

\* the record of a call
Call(op, args, trace, body) ==
    [mgr |-> mgr.id, variant |-> mgr.variant, op |-> op, args |-> args,
     trace |-> trace, raised |-> body.raised, exc |-> body.exc,
     result |-> body.result]

\* ------------------------------------------------------------------- Init
NoManager == [id |-> 0, variant |-> "none", employee_id |-> 0, connection |-> 0]

\* tables working_log can be: the statements name the columns employee_id,
\* time (log) and time_in_seconds (total, salary)
Schemas ==
    { {"employee_id", "time"},
      {"employee_id", "time_in_seconds"},
      {"employee_id", "time", "time_in_seconds"} }

\* the table on which no statement fails for want of a column
AllColumns == columns = {"employee_id", "time", "time_in_seconds"}

\* employee_rates holds at most one row per employee
RateTables ==
    { t \in SUBSET [employee_id : Employees, hour_rate : Rates] :
        \A r1, r2 \in t : r1.employee_id = r2.employee_id => r1 = r2 }

\* what working_log holds before the program runs: nothing, or one entry with
\* its seconds in time_in_seconds when the table has that column
InitialLogs ==
    {<<>>} \cup
    { <<[employee_id |-> e, time |-> Null, time_in_seconds |-> Val(t)]>> :
        e \in Employees, t \in Times }

\* the module is loaded: both classes hold their DbManager, no manager has
\* been constructed, no connection opened
Init ==
    /\ mgr = NoManager
    /\ conns = <<>>
    /\ columns \in Schemas
    /\ working_log \in InitialLogs
    /\ "time_in_seconds" \notin columns => working_log = <<>>
    /\ employee_rates \in RateTables
    /\ last = [mgr |-> 0, variant |-> "none", op |-> "import", args |-> <<>>,
               trace |-> <<>>, raised |-> FALSE, exc |-> "", result |-> PyNone]
    /\ steps = 0

\* ---------------------------------------------------------- first version
\* __init__ of the first version: the connection is opened here
FirstInit(employee_id) ==
    /\ steps < MaxSteps
    /\ LET c == Len(conns) + 1
       IN /\ conns' = Append(conns, open_connection(steps + 1))
          /\ mgr' = [id |-> steps + 1, variant |-> "first",
                     employee_id |-> employee_id, connection |-> c]
          /\ last' = [mgr |-> steps + 1, variant |-> "first", op |-> "__init__",
                      args |-> <<employee_id>>,
                      trace |-> <<Event("open_connection", c, "", <<>>)>>,
                      raised |-> FALSE, exc |-> "", result |-> PyNone]
    /\ steps' = steps + 1
    /\ UNCHANGED <<working_log, employee_rates, columns>>

\* a method that opens a connection of its own on every call and keeps it
FirstCall_reopens(op, args, body) ==
    /\ conns' = Append(conns, Used(open_connection(mgr.id), body))
    /\ mgr' = [mgr EXCEPT !.connection = Len(conns) + 1]
    /\ last' = Call(op, args,
                    <<Event("open_connection", Len(conns) + 1, "", <<>>)>>
                      \o body.calls, body)
    /\ steps' = steps + 1
    /\ UNCHANGED <<working_log, employee_rates, columns>>

\* a method of the first version: its body runs on self._connection, and
\* nothing else is called on the connection
FirstCall(op, args, body) ==
    /\ conns' = [conns EXCEPT ![mgr.connection] = Used(@, body)]
    /\ last' = Call(op, args, body.calls, body)
    /\ steps' = steps + 1
    /\ UNCHANGED <<mgr, working_log, employee_rates, columns>>

FirstLog(time) ==
    /\ mgr.variant = "first"
    /\ steps < MaxSteps
    /\ FirstCall("log", <<time>>, log(mgr.connection, mgr.employee_id, time))

FirstTotal ==
    /\ mgr.variant = "first"
    /\ steps < MaxSteps
    /\ FirstCall("total", <<>>,
                 total(mgr.connection, mgr.employee_id, Visible(mgr.connection)))

FirstSalary(date_from, date_to) ==
    /\ mgr.variant = "first"
    /\ steps < MaxSteps
    /\ FirstCall("salary", <<date_from, date_to>>,
                 salary(mgr.connection, mgr.employee_id, date_from, date_to,
                        Visible(mgr.connection), employee_rates))

\* --------------------------------------------------------- second version
\* __init__ of the second version: no connection yet
SecondInit(employee_id) ==
    /\ steps < MaxSteps
    /\ mgr' = [id |-> steps + 1, variant |-> "second",
               employee_id |-> employee_id, connection |-> 0]
    /\ last' = [mgr |-> steps + 1, variant |-> "second", op |-> "__init__",
                args |-> <<employee_id>>, trace |-> <<>>,
                raised |-> FALSE, exc |-> "", result |-> PyNone]
    /\ steps' = steps + 1
    /\ UNCHANGED <<conns, working_log, employee_rates, columns>>

\* the wrapper of the decorator prepare_connection around a method whose body
\* does `body` on the connection the wrapper opens: open, body, commit, close,
\* with no handler around the body, so an exception of the body leaves the
\* wrapper at once
prepare_connection(op, args, body) ==
    LET c == Len(conns) + 1
        opening == <<Event("open_connection", c, "", <<>>)>>
        used == Used(open_connection(mgr.id), body)
    IN /\ mgr' = [mgr EXCEPT !.connection = c]
       /\ IF body.raised
          THEN /\ conns' = Append(conns, used)
               /\ working_log' = working_log
               /\ last' = Call(op, args, opening \o body.calls, body)
          ELSE /\ conns' = Append(conns, close(commit(used)))
               /\ working_log' = working_log \o used.pending
               /\ last' = Call(op, args,
                               opening \o body.calls
                                 \o <<Event("commit", c, "", <<>>),
                                      Event("close", c, "", <<>>)>>,
                               body)
       /\ steps' = steps + 1
       /\ UNCHANGED <<employee_rates, columns>>

SecondLog(time) ==
    /\ mgr.variant = "second"
    /\ steps < MaxSteps
    /\ prepare_connection("log", <<time>>,
                          log(Len(conns) + 1, mgr.employee_id, time))

SecondTotal ==
    /\ mgr.variant = "second"
    /\ steps < MaxSteps
    /\ prepare_connection("total", <<>>,
                          total(Len(conns) + 1, mgr.employee_id, working_log))

SecondSalary(date_from, date_to) ==
    /\ mgr.variant = "second"
    /\ steps < MaxSteps
    /\ prepare_connection("salary", <<date_from, date_to>>,
                          salary(Len(conns) + 1, mgr.employee_id, date_from,
                                 date_to, working_log, employee_rates))

\* ------------------------------------------------------------------- Next
Next ==
    \/ \E e \in Employees : FirstInit(e)
    \/ \E t \in Times : FirstLog(t)
    \/ FirstTotal
    \/ \E d1, d2 \in Dates : FirstSalary(d1, d2)
    \/ \E e \in Employees : SecondInit(e)
    \/ \E t \in Times : SecondLog(t)
    \/ SecondTotal
    \/ \E d1, d2 \in Dates : SecondSalary(d1, d2)

Spec == Init /\ [][Next]_vars

\* ----------------------------------------------------------------- claims
\* the last call was one of the three operations
IsMethod == last.op \in {"log", "total", "salary"}

\* the connections manager m holds or has had opened for it
OpenedFor(m) == {c \in DOMAIN conns : conns[c].owner = m}

\* the rows the current manager's statements see
View ==
    IF mgr.variant = "first" THEN Visible(mgr.connection) ELSE working_log

\* the kinds of the events of a trace, in order
Kinds(trace) == [i \in 1..Len(trace) |-> trace[i].ev]

\* the positions of a statement's parameters that are bound to employee_id
EmployeePositions(stmt) == IF stmt = "salary" THEN {1, 4} ELSE {1}

\* the seconds an entry of working_log stands for, whichever column holds them
Duration(row) == IF row.time.isNull THEN row.time_in_seconds ELSE row.time
DurationsOf(rows) == [i \in 1..Len(rows) |-> Duration(rows[i])]

\* C1: in the second version, when a call of log, total or salary ends,
\* whether it returned or raised, close() has been called exactly once on the
\* connection the call opened, and no connection opened for the manager is
\* left unclosed.  (Stated here, as C2, C3 and C7 are, for the table that has
\* every column the statements name.)
C1_ClosedOnEveryExit ==
    (AllColumns /\ last.variant = "second" /\ IsMethod) =>
        /\ NumEv(last.trace, "close") = 1
        /\ \A c \in OpenedFor(mgr.id) : conns[c].closes = 1

\* C2: in the second version a call that returns has made the calls
\* open_connection, execute, commit, close in this order, all on the connection
\* it opened, which no earlier call used or closed; and no connection opened
\* for the manager is open between two calls.
C2_OpenExecuteCommitClose ==
    /\ (AllColumns /\ last.variant = "second" /\ IsMethod /\ ~last.raised) =>
          /\ Kinds(last.trace) = <<"open_connection", "execute", "commit", "close">>
          /\ \A i \in 1..Len(last.trace) : last.trace[i].conn = Len(conns)
          /\ conns[Len(conns)].executes = 1
    /\ (AllColumns /\ mgr.variant = "second") =>
          \A c \in OpenedFor(mgr.id) : conns[c].closes >= 1

\* C3: every operation is a transaction of its own: commit() is called if and
\* only if the operation's query succeeded, and an operation that fails rolls
\* back before the connection is released.
C3_CommitIffQuerySucceeded ==
    (AllColumns /\ IsMethod) =>
        /\ (NumEv(last.trace, "commit") = 1) <=> (last.exc # "QueryError")
        /\ last.raised => NumEv(last.trace, "rollback") = 1

\* C4: a manager of the first version has exactly one connection, the one its
\* constructor opened; every call of log, total and salary makes its calls on
\* that connection, opens none and never closes it.
C4_OneConnectionReused ==
    mgr.variant = "first" =>
        /\ OpenedFor(mgr.id) = {mgr.connection}
        /\ conns[mgr.connection].closes = 0
        /\ last.op = "__init__" =>
              last.trace = <<Event("open_connection", mgr.connection, "", <<>>)>>
        /\ IsMethod =>
              \A i \in 1..Len(last.trace) :
                  /\ last.trace[i].ev = "execute"
                  /\ last.trace[i].conn = mgr.connection

\* C4 witness: the second call on one manager of the first version, on the
\* connection that has served the call before
C4_Witness ==
    /\ mgr.variant = "first"
    /\ last.op = "salary"
    /\ conns[mgr.connection].executes = 2

\* C5: every call of log, total and salary, in both versions, calls execute
\* exactly once, with its own statement, whatever its arguments and whatever
\* was called before.
C5_OneExecutePerCall ==
    IsMethod =>
        /\ NumEv(last.trace, "execute") = 1
        /\ \A i \in 1..Len(last.trace) :
              last.trace[i].ev = "execute" => last.trace[i].stmt = last.op

\* C5 witness: a salary call of the second version after an earlier call
C5_Witness ==
    /\ last.variant = "second"
    /\ last.op = "salary"
    /\ Len(conns) >= 2

\* the rows a step adds to a sequence of rows
NewRows(old, new) == SubSeq(new, Len(old) + 1, Len(new))

\* the rows a step writes: published to working_log, or pending on the
\* connection of a manager of the first version
Written ==
    NewRows(working_log, working_log') \o
    (IF mgr.variant = "first" /\ mgr'.connection = mgr.connection
     THEN NewRows(conns[mgr.connection].pending, conns'[mgr.connection].pending)
     ELSE <<>>)

\* C6: the employee identifier a manager is constructed with is the one it
\* keeps; every statement log, total and salary execute carries it in every
\* employee_id position, and every row they write is a row of that employee.
C6_BoundEmployeeOnly ==
    [][ /\ mgr'.id = mgr.id => mgr'.employee_id = mgr.employee_id
        /\ last'.op = "__init__" => mgr'.employee_id = last'.args[1]
        /\ IsMethod' =>
              /\ \A i \in 1..Len(last'.trace) :
                    last'.trace[i].ev = "execute" =>
                        \A k \in EmployeePositions(last'.trace[i].stmt) :
                            /\ k \in DOMAIN last'.trace[i].params
                            /\ last'.trace[i].params[k] = mgr.employee_id
              /\ \A i \in 1..Len(Written) :
                    Written[i].employee_id = mgr.employee_id ]_vars

\* C6 witness: total for employee 2, after the manager has logged for
\* employee 2, while working_log holds seconds of employee 1: the statement
\* ran and summed none of them
C6_Witness ==
    /\ last.op = "total"
    /\ ~last.raised
    /\ mgr.employee_id = 2
    /\ \E i \in 1..Len(View) : View[i].employee_id = 2
    /\ \E i \in 1..Len(View) :
          View[i].employee_id = 1 /\ ~View[i].time_in_seconds.isNull
    /\ last.result = PyTuple(<<Null>>)

\* C7: once durations have been logged for the manager's employee, total()
\* returns the sum of the employee's durations times 3600.
C7_TotalIsLoggedTimes3600 ==
    (/\ AllColumns
     /\ last.op = "total"
     /\ \E i \in 1..Len(View) :
            View[i].employee_id = mgr.employee_id /\ ~View[i].time.isNull) =>
        /\ ~last.raised
        /\ last.result =
             PyInt(SumCells(DurationsOf(RowsOf(View, mgr.employee_id))).n * 3600)

\* C8: on a table that has time_in_seconds, salary for an employee without
\* seconds in the range, and total for an employee without rows, return None
\* or 0 and do not raise.
C8_NothingLoggedNoFault ==
    "time_in_seconds" \in columns =>
        /\ (/\ last.op = "salary"
            /\ SalaryX(View, SalaryParams(mgr.employee_id, last.args[1],
                                          last.args[2])).isNull) =>
              (~last.raised /\ last.result \in {PyNone, PyInt(0)})
        /\ (last.op = "total" /\ RowsOf(View, mgr.employee_id) = <<>>) =>
              (~last.raised /\ last.result \in {PyNone, PyInt(0)})

\* C9: a call of total or salary returns a number or raises; it never returns
\* a row or None.
C9_ScalarOrFailure ==
    last.op \in {"total", "salary"} => (last.raised \/ last.result.tag = "int")

\* C10: for an employee with a rate and with seconds in the range, both bounds
\* included, salary returns these seconds times the rate.
C10_SalaryIsTimeTimesRate ==
    LET params == SalaryParams(mgr.employee_id, last.args[1], last.args[2])
    IN (/\ last.op = "salary"
        /\ SalaryY(employee_rates, params) # {}
        /\ ~SalaryX(View, params).isNull) =>
           /\ ~last.raised
           /\ last.result =
                PyInt(SalaryX(View, params).n
                        * (CHOOSE r \in SalaryY(employee_rates, params) : TRUE).hour_rate)

====
